---------------------------- MODULE Spec2Model ----------------------------
(***************************************************************************)
(* A model of app.py: the price fetcher with its retry loop, the          *)
(* subscriber file with its whole-file load and save, the subscribe       *)
(* handler of the page and send_daily_updates with its fan-out.           *)
(*                                                                         *)
(* Every thread of the process (a page session, the scheduler) has its own *)
(* program counter and its own locals; the threads share the subscriber    *)
(* file only.  A step is one access to something outside the thread (one   *)
(* GET, one sleep, one POST, one read or one write of the file) together   *)
(* with the local computation that follows it.                             *)
(***************************************************************************)
EXTENDS Integers, Sequences, FiniteSets, TLC

VARIABLES
    file,          \* subscribers.json: [exists, text], text a sequence of tokens
    pc,            \* pc[t]: where thread t stands
    max_retries,   \* fetch_crypto_data: the parameter
    base_delay,    \* fetch_crypto_data: retry_delay as the caller passed it
    retry_delay,   \* fetch_crypto_data: the parameter, doubled by the loop
    attempt,       \* fetch_crypto_data: the loop variable
    events,        \* the GETs and sleeps of the call in progress, in order
    notes,         \* the st.warning / st.error messages of the call, in order
    ret,           \* what the call hands to its caller
    email,         \* the subscribe form: the text of the input
    subscribers,   \* the handler's local list, as loaded and appended to
    outcome,       \* what the handler in progress has come to
    writes,        \* the writes of the subscriber file by the handler
    settled,       \* the address t's last subscribe found or left stored, no
                   \* other thread having written the file since; else NoEmail
    again,         \* the subscribe in progress is for the address settled
                   \* when it began, no other thread having written since
    crypto_data,   \* send_daily_updates: the local of line 81
    email_content, \* send_daily_updates: the local of line 86
    idx,           \* send_daily_updates: the position of the loop of line 89
    posts,         \* send_daily_updates: the recipients POSTed for, in order
    log,           \* send_daily_updates: the lines printed, in order
    fresh,         \* no other thread has written the file since the load of
                   \* the subscribe that t has in progress
    subject,       \* send_daily_updates: the local of line 87
    payloads,      \* send_daily_updates: the payloads POSTed, in order
    now,           \* the clock, in sleeps of the scheduler loop since midnight
                   \* of the day the process started
    jobs,          \* the jobs registered with the schedule module, in order
    pending,       \* run_pending in thread t: the jobs it found due and has
                   \* not run yet, each with the run time it was due for
    wake,          \* the scheduler loop of thread t: when its sleep is over
    fired          \* the calls of jobs by the scheduler loops: who, which, due when

fetchVars == <<max_retries, base_delay, retry_delay, attempt, events, notes, ret>>
subVars == <<email, writes, settled, again, fresh>>
runVars == <<crypto_data, email_content, subject, idx, posts, payloads, log>>
schedVars == <<now, jobs, pending, wake, fired>>
vars == <<file, pc, fetchVars, subVars, subscribers, outcome, runVars, schedVars>>

(***************************************************************************)
(* Bounds of the model.                                                    *)
(***************************************************************************)
MaxRetriesArg == 4      \* max_retries is drawn from 0 .. MaxRetriesArg
MaxDelayArg == 3        \* retry_delay is drawn from 1 .. MaxDelayArg
TicksPerDay == 3        \* the sleeps of the scheduler loop that make a day
MaxTime == 4            \* the clock stops at MaxTime

\* the threads of the process: the sessions of the page, and the scheduler
\* threads that the executions of the entry point start (lines 169-173)
Pages == {"ui1", "ui2"}
Schedulers == {"sched1", "sched2"}
Threads == Pages \cup Schedulers
FetchThread == "ui1"

(***************************************************************************)
(* The price API.  A response is a status and a body; the body is text    *)
(* that response.json() parses or fails to parse.                          *)
(***************************************************************************)
HTTP_OK == 200
HTTP_RATE_LIMITED == 429
Bodies == {"PRICES", "ONLY_BTC", "EMPTY_OBJECT", "NOT_JSON"}
Responses ==
    {[status |-> 200, body |-> b] : b \in Bodies}
        \cup {[status |-> s, body |-> "ERROR_PAGE"] : s \in {429, 500}}

\* response.json() raises on a body that is no JSON document
JsonParses(body) == body # "NOT_JSON"

\* response.json(): the parsed document, a mapping from asset id to figures
ResponseJson(body) ==
    CASE body = "PRICES" ->
            [bitcoin  |-> [usd |-> 65000, usd_24h_change |-> -2],
             ethereum |-> [usd |-> 3200,  usd_24h_change |-> 1]]
      [] body = "ONLY_BTC" ->
            [bitcoin  |-> [usd |-> 65000, usd_24h_change |-> -2]]
      [] OTHER -> << >>

NoRet == [kind |-> "pending"]
RetNone == [kind |-> "none"]
RetValue(v) == [kind |-> "value", val |-> v]
RetRaised(e) == [kind |-> "raised", exc |-> e]

(***************************************************************************)
(* fetch_crypto_data                                                       *)
(***************************************************************************)
\* the bug of sleeping after the last attempt too
SleepsAlways(a, n) == a < n

\* line 26: sleep only when another attempt follows
SleepsBeforeRetry(a, n) == a < n - 1

\* the bug of a delay that grows by a step
BackoffLinear(d) == d + 1

\* line 29: exponential backoff
Backoff(d) == d * 2

\* the bug of one attempt too many
LoopOffByOne(a, n) == a <= n

\* line 21: range(max_retries)
LoopContinues(a, n) == a < n

\* the bug of retrying on every status but 200
BranchRetryAll(status) ==
    IF status = 200 THEN "ok" ELSE "rate_limited"

\* lines 23, 25, 32: the three branches on the status code
Branch(status) ==
    IF status = HTTP_OK THEN "ok"
    ELSE IF status = HTTP_RATE_LIMITED THEN "rate_limited"
    ELSE "other"

\* the call: the parameters are bound and the loop is entered
EnterFetch(t, n, d) ==
    /\ max_retries' = [max_retries EXCEPT ![t] = n]
    /\ base_delay' = [base_delay EXCEPT ![t] = d]
    /\ retry_delay' = [retry_delay EXCEPT ![t] = d]
    /\ attempt' = [attempt EXCEPT ![t] = 0]
    /\ events' = [events EXCEPT ![t] = << >>]
    /\ notes' = [notes EXCEPT ![t] = << >>]
    /\ ret' = [ret EXCEPT ![t] = NoRet]

\* one iteration of the loop: the GET of line 22 and the branch taken on it
FetchGet(t) ==
    /\ pc[t] = "fetch_get"
    /\ LoopContinues(attempt[t], max_retries[t])
    /\ \E response \in Responses :
        /\ events' = [events EXCEPT ![t] =
                          Append(@, <<"GET", response.status, response.body>>)]
        /\ CASE Branch(response.status) = "ok" ->
                  /\ ret' = [ret EXCEPT ![t] =
                                IF JsonParses(response.body)
                                THEN RetValue(ResponseJson(response.body))
                                ELSE RetRaised("JSONDecodeError")]
                  /\ pc' = [pc EXCEPT ![t] = "fetch_ret"]
                  /\ UNCHANGED <<attempt, notes>>
             [] Branch(response.status) = "rate_limited" ->
                  IF SleepsBeforeRetry(attempt[t], max_retries[t])
                  THEN /\ notes' = [notes EXCEPT ![t] =
                                       Append(@, <<"warning_retrying_in", retry_delay[t]>>)]
                       /\ pc' = [pc EXCEPT ![t] = "fetch_sleep"]
                       /\ UNCHANGED <<attempt, ret>>
                  ELSE /\ notes' = [notes EXCEPT ![t] =
                                       Append(@, <<"error_rate_limit_exceeded">>)]
                       /\ attempt' = [attempt EXCEPT ![t] = @ + 1]
                       /\ UNCHANGED <<pc, ret>>
             [] OTHER ->
                  /\ notes' = [notes EXCEPT ![t] =
                                  Append(@, <<"error_fetching_data", response.status>>)]
                  /\ ret' = [ret EXCEPT ![t] = RetNone]
                  /\ pc' = [pc EXCEPT ![t] = "fetch_ret"]
                  /\ UNCHANGED attempt
    /\ UNCHANGED <<file, max_retries, base_delay, retry_delay>>
    /\ UNCHANGED <<subVars, subscribers, outcome, runVars, schedVars>>

\* lines 28-29: the sleep, the doubling, and on to the next iteration
FetchSleep(t) ==
    /\ pc[t] = "fetch_sleep"
    /\ events' = [events EXCEPT ![t] = Append(@, <<"SLEEP", retry_delay[t]>>)]
    /\ retry_delay' = [retry_delay EXCEPT ![t] = Backoff(@)]
    /\ attempt' = [attempt EXCEPT ![t] = @ + 1]
    /\ pc' = [pc EXCEPT ![t] = "fetch_get"]
    /\ UNCHANGED <<file, max_retries, base_delay, notes, ret>>
    /\ UNCHANGED <<subVars, subscribers, outcome, runVars, schedVars>>

\* line 36: the loop has run out of attempts
FetchExhausted(t) ==
    /\ pc[t] = "fetch_get"
    /\ ~LoopContinues(attempt[t], max_retries[t])
    /\ ret' = [ret EXCEPT ![t] = RetNone]
    /\ pc' = [pc EXCEPT ![t] = "fetch_ret"]
    /\ UNCHANGED <<file, max_retries, base_delay, retry_delay, attempt, events, notes>>
    /\ UNCHANGED <<subVars, subscribers, outcome, runVars, schedVars>>

\* fetch_crypto_data has returned or raised: its frame is gone
LeaveFetch(t) ==
    /\ max_retries' = [max_retries EXCEPT ![t] = 0]
    /\ base_delay' = [base_delay EXCEPT ![t] = 0]
    /\ retry_delay' = [retry_delay EXCEPT ![t] = 0]
    /\ attempt' = [attempt EXCEPT ![t] = 0]
    /\ notes' = [notes EXCEPT ![t] = << >>]
    /\ ret' = [ret EXCEPT ![t] = NoRet]
    /\ UNCHANGED events

(***************************************************************************)
(* The subscriber file.  An address is the sequence of its characters; the *)
(* file's text is a sequence of tokens, as json.dump writes a list of      *)
(* strings: [ then the strings with , between them, then ].                *)
(***************************************************************************)
NoEmail == <<"-">>
AddrA == <<"a", "@", "x">>
AddrB == <<"b", "@", "y">>
EmailInputs == {<< >>, <<"a">>, AddrA, AddrB}

Str(e) == <<"STR", e>>

RECURSIVE Items(_)
Items(L) ==
    IF L = << >> THEN << >>
    ELSE IF Len(L) = 1 THEN <<Str(L[1])>>
    ELSE <<Str(L[1]), <<",">> >> \o Items(Tail(L))

\* json.dump(subscribers, f): the text written
JsonDump(L) == << <<"[">> >> \o Items(L) \o << <<"]">> >>

IsStr(tok) == tok[1] = "STR"

\* the text is a JSON array of strings
JsonIsArray(text) ==
    /\ Len(text) >= 2
    /\ text[1] = <<"[">>
    /\ text[Len(text)] = <<"]">>
    /\ \/ Len(text) = 2
       \/ /\ Len(text) % 2 = 1
          /\ \A i \in 2 .. Len(text) - 1 :
                IF i % 2 = 0 THEN IsStr(text[i]) ELSE text[i] = <<",">>

\* the bug of reading the strings from the second on
JsonLoadSkipFirst(text) ==
    [i \in 1 .. (Len(text) - 1) \div 2 - 1 |-> text[2 * (i + 1)][2]]

\* json.load(f) of such a text: its strings, in the order of the text
JsonLoad(text) ==
    [i \in 1 .. (Len(text) - 1) \div 2 |-> text[2 * i][2]]

Absent == [exists |-> FALSE, text |-> << >>]
Truncated == [exists |-> TRUE, text |-> << >>]
Stored(L) == [exists |-> TRUE, text |-> JsonDump(L)]

\* the bug of recovering from the missing file only
load_subscribersStrict(f) ==
    IF ~f.exists THEN << >> ELSE JsonLoad(f.text)

\* load_subscribers (lines 102-107)
load_subscribers(f) ==
    IF ~f.exists THEN << >>                       \* FileNotFoundError
    ELSE IF ~JsonIsArray(f.text) THEN << >>       \* json.JSONDecodeError
    ELSE JsonLoad(f.text)

\* the files the process can find at any moment of its life
CorruptFile == [exists |-> TRUE, text |-> << <<"[">>, Str(AddrA), <<",">> >>]
StoredLists ==
    {<< >>, <<AddrA>>, <<AddrB>>, <<AddrA, AddrB>>, <<AddrB, AddrA>>}
InitFiles == {Absent, CorruptFile} \cup {Stored(L) : L \in StoredLists}

(***************************************************************************)
(* The subscribe handler of the page (lines 143-153).                      *)
(***************************************************************************)
\* the bug of testing for the empty input only
IsEmptyOnly(e) == e = << >>

\* line 144: not email or "@" not in email
IsInvalid(e) == e = << >> \/ ~(\E i \in 1 .. Len(e) : e[i] = "@")

\* the bug of comparing with the first stored address only
ContainsFirst(L, e) == L # << >> /\ L[1] = e

\* line 148: email in subscribers
Contains(L, e) == \E i \in 1 .. Len(L) : L[i] = e

Count(L, e) == Cardinality({i \in 1 .. Len(L) : L[i] = e})

\* a write of the file by t ends what the other threads' subscribes settled
Unsettle(t, e) ==
    /\ settled' = [u \in Threads |-> IF u = t THEN e ELSE NoEmail]
    /\ again' = [u \in Threads |-> u = t /\ again[u]]
    /\ fresh' = [u \in Threads |-> u = t /\ fresh[u]]

\* line 151: subscribers.append(email)
AppendFirst(L, e) == <<e>> \o L
AppendEmail(L, e) == Append(L, e)

\* the button is pressed with e in the input: lines 143-146
Subscribe(t) ==
    /\ pc[t] = "idle"
    /\ \E e \in EmailInputs :
        /\ email' = [email EXCEPT ![t] = e]
        /\ IF IsInvalid(e)
           THEN /\ outcome' = [outcome EXCEPT ![t] = "invalid_email"]
                /\ pc' = [pc EXCEPT ![t] = "sub_end"]
           ELSE /\ outcome' = [outcome EXCEPT ![t] = "pending"]
                /\ pc' = [pc EXCEPT ![t] = "sub_load"]
        /\ again' = [again EXCEPT ![t] = (settled[t] = e)]
    /\ writes' = [writes EXCEPT ![t] = 0]
    /\ fresh' = [fresh EXCEPT ![t] = FALSE]
    /\ UNCHANGED <<file, fetchVars, settled, subscribers, runVars, schedVars>>

\* lines 147-151: the load, the membership test, the append
SubscribeLoad(t) ==
    /\ pc[t] = "sub_load"
    /\ LET L == load_subscribers(file) IN
        IF Contains(L, email[t])
        THEN /\ subscribers' = [subscribers EXCEPT ![t] = L]
             /\ outcome' = [outcome EXCEPT ![t] = "already_subscribed"]
             /\ settled' = [settled EXCEPT ![t] = email[t]]
             /\ pc' = [pc EXCEPT ![t] = "sub_end"]
        ELSE /\ subscribers' = [subscribers EXCEPT ![t] = AppendEmail(L, email[t])]
             /\ pc' = [pc EXCEPT ![t] = "sub_open"]
             /\ UNCHANGED <<outcome, settled>>
    /\ fresh' = [fresh EXCEPT ![t] = TRUE]
    /\ UNCHANGED <<file, fetchVars, email, writes, again, runVars, schedVars>>

\* save_subscribers, line 98: open(..., "w") creates or truncates the file
SaveOpen(t) ==
    /\ pc[t] = "sub_open"
    /\ file' = Truncated
    /\ Unsettle(t, NoEmail)
    /\ pc' = [pc EXCEPT ![t] = "sub_write"]
    /\ UNCHANGED <<fetchVars, email, writes, subscribers, outcome, runVars, schedVars>>

\* save_subscribers, line 99, and line 153: the dump, and the success message
SaveWrite(t) ==
    /\ pc[t] = "sub_write"
    /\ file' = [exists |-> TRUE, text |-> JsonDump(subscribers[t])]
    /\ Unsettle(t, email[t])
    /\ writes' = [writes EXCEPT ![t] = @ + 1]
    /\ outcome' = [outcome EXCEPT ![t] = "added"]
    /\ pc' = [pc EXCEPT ![t] = "sub_end"]
    /\ UNCHANGED <<fetchVars, email, subscribers, runVars, schedVars>>

\* the handler is over: its locals are gone
SubscribeEnd(t) ==
    /\ pc[t] = "sub_end"
    /\ again' = [again EXCEPT ![t] = FALSE]
    /\ email' = [email EXCEPT ![t] = NoEmail]
    /\ subscribers' = [subscribers EXCEPT ![t] = << >>]
    /\ outcome' = [outcome EXCEPT ![t] = "none"]
    /\ writes' = [writes EXCEPT ![t] = 0]
    /\ pc' = [pc EXCEPT ![t] = "idle"]
    /\ fresh' = [fresh EXCEPT ![t] = FALSE]
    /\ UNCHANGED <<file, fetchVars, settled, runVars, schedVars>>

(***************************************************************************)
(* The email API and send_email (lines 39-53).                             *)
(***************************************************************************)
EmailResponses ==
    {[status |-> 200, body |-> "ID"],
     [status |-> 422, body |-> "ERROR_OBJECT"],
     [status |-> 502, body |-> "NOT_JSON"]}

\* lines 45-50: the payload of the POST
PayloadNoBody(to, subj, html) ==
    [from |-> "onboarding@resend.dev", to |-> to, subject |-> subj, html |-> [date |-> "-"]]
Payload(to, subj, html) ==
    [from |-> "onboarding@resend.dev", to |-> to, subject |-> subj, html |-> html]

\* line 53: (response.status_code == 200, response.json())
send_email(response) ==
    IF ~JsonParses(response.body) THEN RetRaised("JSONDecodeError")
    ELSE RetValue(<<response.status = HTTP_OK, response.body>>)

(***************************************************************************)
(* create_email_content (lines 56-72): the figures read and the page made  *)
(* of them and of the date.                                                *)
(***************************************************************************)
\* datetime.now().strftime('%Y-%m-%d') (lines 64 and 87) when the clock shows n
Today(n) == <<"day", n \div TicksPerDay>>
NoPage == [date |-> "-"]

HasFigures(data) == {"bitcoin", "ethereum"} \subseteq DOMAIN data

\* r is what fetch_crypto_data returned: None or a document
create_email_content(r, date) ==
    IF r.kind = "none" THEN RetRaised("TypeError")
    ELSE IF ~HasFigures(r.val) THEN RetRaised("KeyError")
    ELSE RetValue([date |-> date,
                   btc_price |-> r.val.bitcoin.usd,
                   btc_change |-> r.val.bitcoin.usd_24h_change,
                   eth_price |-> r.val.ethereum.usd,
                   eth_change |-> r.val.ethereum.usd_24h_change])

(***************************************************************************)
(* send_daily_updates (lines 75-94).                                       *)
(***************************************************************************)
DEFAULT_MAX_RETRIES == 3
DEFAULT_RETRY_DELAY == 5

\* line 87: the subject, of the date
NoSubject == <<"-">>
Subject(date) == <<"Crypto Update - ", date>>

\* the bug of testing for None, which load_subscribers never returns
NoSubscribersNever(L) == FALSE

\* line 77: not subscribers
NoSubscribers(L) == L = << >>

\* the bug of testing for the empty document only
NoDataEmptyOnly(r) == r.kind = "value" /\ DOMAIN r.val = {}

\* line 82: not crypto_data, of what fetch_crypto_data returned
NoData(r) == r.kind = "none" \/ (r.kind = "value" /\ DOMAIN r.val = {})

\* the bug of stopping before the last recipient
MoreRecipientsButLast(i, L) == i < Len(L)

\* line 89: the loop over the loaded list
MoreRecipients(i, L) == i <= Len(L)

\* the call: "Send Test Email" on the page (lines 165-166)
RunStart(t) ==
    /\ pc[t] = "idle"
    /\ pc' = [pc EXCEPT ![t] = "run_load"]
    /\ outcome' = [outcome EXCEPT ![t] = "pending"]
    /\ UNCHANGED <<file, fetchVars, subVars, subscribers, runVars, schedVars>>

\* lines 76-81: the load, the empty list's early return, the call of the fetcher
RunLoad(t) ==
    /\ pc[t] = "run_load"
    /\ LET L == load_subscribers(file) IN
        /\ subscribers' = [subscribers EXCEPT ![t] = L]
        /\ IF NoSubscribers(L)
           THEN /\ log' = [log EXCEPT ![t] = Append(@, <<"no_subscribers">>)]
                /\ outcome' = [outcome EXCEPT ![t] = "returned"]
                /\ pc' = [pc EXCEPT ![t] = "run_end"]
                /\ UNCHANGED fetchVars
           ELSE /\ EnterFetch(t, DEFAULT_MAX_RETRIES, DEFAULT_RETRY_DELAY)
                /\ pc' = [pc EXCEPT ![t] = "fetch_get"]
                /\ UNCHANGED <<log, outcome>>
    /\ UNCHANGED <<file, subVars, crypto_data, email_content, subject, idx, posts, payloads>>
    /\ UNCHANGED schedVars

\* lines 81-87: the fetcher's result is bound, tested and rendered
RunRender(t) ==
    /\ pc[t] = "fetch_ret"
    /\ LeaveFetch(t)
    /\ crypto_data' = [crypto_data EXCEPT ![t] = ret[t]]
    /\ LET page == create_email_content(ret[t], Today(now))
        IN  IF ret[t].kind = "raised"
            THEN /\ outcome' = [outcome EXCEPT ![t] = "raised"]
                 /\ pc' = [pc EXCEPT ![t] = "run_end"]
                 /\ UNCHANGED <<email_content, subject, idx, log>>
            ELSE IF NoData(ret[t])
            THEN /\ log' = [log EXCEPT ![t] = Append(@, <<"failed_to_fetch">>)]
                 /\ outcome' = [outcome EXCEPT ![t] = "returned"]
                 /\ pc' = [pc EXCEPT ![t] = "run_end"]
                 /\ UNCHANGED <<email_content, subject, idx>>
            ELSE IF page.kind = "raised"
            THEN /\ outcome' = [outcome EXCEPT ![t] = "raised"]
                 /\ pc' = [pc EXCEPT ![t] = "run_end"]
                 /\ UNCHANGED <<email_content, subject, idx, log>>
            ELSE /\ email_content' = [email_content EXCEPT ![t] = page.val]
                 /\ subject' = [subject EXCEPT ![t] = Subject(Today(now))]
                 /\ idx' = [idx EXCEPT ![t] = 1]
                 /\ pc' = [pc EXCEPT ![t] = "run_send"]
                 /\ UNCHANGED <<outcome, log>>
    /\ UNCHANGED <<file, subVars, subscribers, posts, payloads, schedVars>>

\* lines 89-94: one turn of the loop, the POST of line 52 and the line printed
RunSend(t) ==
    /\ pc[t] = "run_send"
    /\ MoreRecipients(idx[t], subscribers[t])
    /\ \E response \in EmailResponses :
        LET to == subscribers[t][idx[t]]
            sent == send_email(response)
        IN  /\ posts' = [posts EXCEPT ![t] = Append(@, to)]
            /\ payloads' = [payloads EXCEPT ![t] =
                               Append(@, Payload(to, subject[t], email_content[t]))]
            /\ IF sent.kind = "raised"
               THEN /\ outcome' = [outcome EXCEPT ![t] = "raised"]
                    /\ pc' = [pc EXCEPT ![t] = "run_end"]
                    /\ UNCHANGED <<idx, log>>
               ELSE /\ log' = [log EXCEPT ![t] =
                                  Append(@, IF sent.val[1]
                                            THEN <<"sent", to>>
                                            ELSE <<"failed", to, sent.val[2]>>)]
                    /\ idx' = [idx EXCEPT ![t] = @ + 1]
                    /\ UNCHANGED <<pc, outcome>>
    /\ UNCHANGED <<file, fetchVars, subVars, subscribers, crypto_data, email_content>>
    /\ UNCHANGED <<subject, schedVars>>

\* the loop of line 89 has run out of recipients: the function returns
RunSent(t) ==
    /\ pc[t] = "run_send"
    /\ ~MoreRecipients(idx[t], subscribers[t])
    /\ outcome' = [outcome EXCEPT ![t] = "returned"]
    /\ pc' = [pc EXCEPT ![t] = "run_end"]
    /\ UNCHANGED <<file, fetchVars, subVars, subscribers, runVars, schedVars>>

\* send_daily_updates is over: its locals are gone
RunEnd(t) ==
    /\ pc[t] = "run_end"
    /\ events' = [events EXCEPT ![t] = << >>]
    /\ subscribers' = [subscribers EXCEPT ![t] = << >>]
    /\ outcome' = [outcome EXCEPT ![t] = "none"]
    /\ crypto_data' = [crypto_data EXCEPT ![t] = NoRet]
    /\ email_content' = [email_content EXCEPT ![t] = NoPage]
    /\ subject' = [subject EXCEPT ![t] = NoSubject]
    /\ idx' = [idx EXCEPT ![t] = 0]
    /\ posts' = [posts EXCEPT ![t] = << >>]
    /\ payloads' = [payloads EXCEPT ![t] = << >>]
    /\ log' = [log EXCEPT ![t] = << >>]
    /\ pc' = [pc EXCEPT ![t] = "idle"]
    /\ UNCHANGED <<file, max_retries, base_delay, retry_delay, attempt, notes, ret>>
    /\ UNCHANGED <<subVars, schedVars>>

(***************************************************************************)
(* run_scheduler (lines 110-115) and the schedule module it drives.  The   *)
(* module keeps one list of jobs for the process.  A daily job is due when *)
(* the clock has reached its next_run; run_pending collects the jobs that  *)
(* are due, calls them in the order of their next_run and, when a call     *)
(* has returned, moves the job's next_run to the first 08:00 after the     *)
(* clock.  An exception of the job leaves run_pending and the loop.        *)
(***************************************************************************)
\* at("08:00"), and time.sleep(60), in sleeps of the loop
AT_TIME == 1
SLEEP == 1

\* the bug of scheduling for the 08:00 that the clock has reached
NextRunReached(n) ==
    CHOOSE m \in n - TicksPerDay + 1 .. n : m % TicksPerDay = AT_TIME

\* the first 08:00 after the clock shows n
NextRunAfter(n) ==
    CHOOSE m \in n + 1 .. n + TicksPerDay : m % TicksPerDay = AT_TIME

\* the bug of running whatever is registered
ShouldRunAlways(job, n) == TRUE

\* Job.should_run
ShouldRun(job, n) == n >= job.next_run

\* the jobs of D, each with its next_run, in the order of their next_runs
RECURSIVE Sorted(_)
Sorted(D) ==
    IF D = {} THEN << >>
    ELSE LET j == CHOOSE i \in D : \A k \in D :
                      \/ jobs[i].next_run < jobs[k].next_run
                      \/ jobs[i].next_run = jobs[k].next_run /\ i <= k
         IN  << <<j, jobs[j].next_run>> >> \o Sorted(D \ {j})

\* the entry point is executed (lines 169-173): a scheduler thread starts
EntryPoint(s) ==
    /\ pc[s] = "unstarted"
    /\ pc' = [pc EXCEPT ![s] = "sched_register"]
    /\ UNCHANGED <<file, fetchVars, subVars, subscribers, outcome, runVars, schedVars>>

\* line 111: the thread registers a daily job with the module
SchedRegister(s) ==
    /\ pc[s] = "sched_register"
    /\ jobs' = Append(jobs, [next_run |-> NextRunAfter(now)])
    /\ pc' = [pc EXCEPT ![s] = "sched_pending"]
    /\ UNCHANGED <<file, fetchVars, subVars, subscribers, outcome, runVars>>
    /\ UNCHANGED <<now, pending, wake, fired>>

\* the call of job j by the loop of s for the run time r: the last of its
\* elements tells it from the earlier calls of the same job by the same loop
\* for the same run time
Call(s, j, r) ==
    <<s, j, r, 1 + Cardinality({f \in fired : f[1] = s /\ f[2] = j /\ f[3] = r})>>

\* run_pending with the jobs of due left to call: it calls the first, or
\* returns, and the loop sleeps (line 115)
CallOrSleep(s, due) ==
    /\ IF due = << >>
       THEN /\ pc' = [pc EXCEPT ![s] = "sched_sleep"]
            /\ wake' = [wake EXCEPT ![s] = now + SLEEP]
            /\ outcome' = [outcome EXCEPT ![s] = "none"]
            /\ UNCHANGED fired
       ELSE /\ pc' = [pc EXCEPT ![s] = "run_load"]
            /\ outcome' = [outcome EXCEPT ![s] = "pending"]
            /\ fired' = fired \cup {Call(s, due[1][1], due[1][2])}
            /\ UNCHANGED wake
    /\ pending' = [pending EXCEPT ![s] = due]

\* line 114: run_pending collects the jobs that are due
SchedPending(s) ==
    /\ pc[s] = "sched_pending"
    /\ CallOrSleep(s, Sorted({j \in 1 .. Len(jobs) : ShouldRun(jobs[j], now)}))
    /\ UNCHANGED <<file, fetchVars, subVars, subscribers, runVars, now, jobs>>

\* the job has returned: it is scheduled again, and run_pending goes on
SchedJobDone(s) ==
    /\ pc[s] = "run_end"
    /\ outcome[s] = "returned"
    /\ jobs' = [jobs EXCEPT ![pending[s][1][1]] = [next_run |-> NextRunAfter(now)]]
    /\ CallOrSleep(s, Tail(pending[s]))
    /\ events' = [events EXCEPT ![s] = << >>]
    /\ subscribers' = [subscribers EXCEPT ![s] = << >>]
    /\ crypto_data' = [crypto_data EXCEPT ![s] = NoRet]
    /\ email_content' = [email_content EXCEPT ![s] = NoPage]
    /\ subject' = [subject EXCEPT ![s] = NoSubject]
    /\ idx' = [idx EXCEPT ![s] = 0]
    /\ posts' = [posts EXCEPT ![s] = << >>]
    /\ payloads' = [payloads EXCEPT ![s] = << >>]
    /\ log' = [log EXCEPT ![s] = << >>]
    /\ UNCHANGED <<file, max_retries, base_delay, retry_delay, attempt, notes, ret>>
    /\ UNCHANGED <<subVars, now>>

\* the job has raised: the exception leaves run_pending and the loop of
\* line 113, and the thread is over
SchedDies(s) ==
    /\ pc[s] = "run_end"
    /\ outcome[s] = "raised"
    /\ pc' = [pc EXCEPT ![s] = "dead"]
    /\ pending' = [pending EXCEPT ![s] = << >>]
    /\ outcome' = [outcome EXCEPT ![s] = "none"]
    /\ events' = [events EXCEPT ![s] = << >>]
    /\ subscribers' = [subscribers EXCEPT ![s] = << >>]
    /\ crypto_data' = [crypto_data EXCEPT ![s] = NoRet]
    /\ email_content' = [email_content EXCEPT ![s] = NoPage]
    /\ subject' = [subject EXCEPT ![s] = NoSubject]
    /\ idx' = [idx EXCEPT ![s] = 0]
    /\ posts' = [posts EXCEPT ![s] = << >>]
    /\ payloads' = [payloads EXCEPT ![s] = << >>]
    /\ log' = [log EXCEPT ![s] = << >>]
    /\ UNCHANGED <<file, max_retries, base_delay, retry_delay, attempt, notes, ret>>
    /\ UNCHANGED <<subVars, now, jobs, wake, fired>>

\* line 115: the sleep is over, at the time it was due to end or later
SchedWake(s) ==
    /\ pc[s] = "sched_sleep"
    /\ now >= wake[s]
    /\ pc' = [pc EXCEPT ![s] = "sched_pending"]
    /\ wake' = [wake EXCEPT ![s] = 0]
    /\ UNCHANGED <<file, fetchVars, subVars, subscribers, outcome, runVars>>
    /\ UNCHANGED <<now, jobs, pending, fired>>

\* a sleep's length of time passes
Tick ==
    /\ now < MaxTime
    /\ now' = now + 1
    /\ UNCHANGED <<file, pc, fetchVars, subVars, subscribers, outcome, runVars>>
    /\ UNCHANGED <<jobs, pending, wake, fired>>

\* what a scheduler thread does between its start and its end
SchedStep(s) ==
    \/ SchedRegister(s)
    \/ SchedPending(s)
    \/ RunLoad(s)
    \/ FetchGet(s)
    \/ FetchSleep(s)
    \/ FetchExhausted(s)
    \/ RunRender(s)
    \/ RunSend(s)
    \/ RunSent(s)
    \/ SchedJobDone(s)
    \/ SchedDies(s)
    \/ SchedWake(s)

(***************************************************************************)
(* The process: the threads idle, the file as it may be found.             *)
(***************************************************************************)
Idle ==
    /\ max_retries = [t \in Threads |-> 0]
    /\ base_delay = [t \in Threads |-> 0]
    /\ retry_delay = [t \in Threads |-> 0]
    /\ attempt = [t \in Threads |-> 0]
    /\ events = [t \in Threads |-> << >>]
    /\ notes = [t \in Threads |-> << >>]
    /\ ret = [t \in Threads |-> NoRet]
    /\ email = [t \in Threads |-> NoEmail]
    /\ subscribers = [t \in Threads |-> << >>]
    /\ outcome = [t \in Threads |-> "none"]
    /\ writes = [t \in Threads |-> 0]
    /\ settled = [t \in Threads |-> NoEmail]
    /\ again = [t \in Threads |-> FALSE]
    /\ crypto_data = [t \in Threads |-> NoRet]
    /\ email_content = [t \in Threads |-> NoPage]
    /\ idx = [t \in Threads |-> 0]
    /\ posts = [t \in Threads |-> << >>]
    /\ log = [t \in Threads |-> << >>]
    /\ fresh = [t \in Threads |-> FALSE]
    /\ subject = [t \in Threads |-> NoSubject]
    /\ payloads = [t \in Threads |-> << >>]
    /\ pending = [t \in Threads |-> << >>]
    /\ wake = [t \in Threads |-> 0]
    /\ jobs = << >>
    /\ fired = {}

\* the pages of the process, the scheduler threads left out: they share
\* nothing with a page but the file, which they only read
Init ==
    /\ file \in InitFiles
    /\ pc = [t \in Threads |-> IF t \in Pages THEN "idle" ELSE "unstarted"]
    /\ now = 0
    /\ Idle

Next ==
    \E t \in Pages :
        \/ Subscribe(t)
        \/ SubscribeLoad(t)
        \/ SaveOpen(t)
        \/ SaveWrite(t)
        \/ SubscribeEnd(t)
        \/ RunStart(t)
        \/ RunLoad(t)
        \/ FetchGet(t)
        \/ FetchSleep(t)
        \/ FetchExhausted(t)
        \/ RunRender(t)
        \/ RunSend(t)
        \/ RunSent(t)
        \/ RunEnd(t)

Spec == Init /\ [][Next]_vars

(***************************************************************************)
(* The fetcher on its own: one call, with any parameters.                  *)
(***************************************************************************)
FetchInit ==
    /\ file = Absent
    /\ \E n \in 0 .. MaxRetriesArg, d \in 1 .. MaxDelayArg :
        /\ pc = [t \in Threads |-> IF t = FetchThread THEN "fetch_get"
                                 ELSE IF t \in Pages THEN "idle" ELSE "unstarted"]
        /\ max_retries = [t \in Threads |-> IF t = FetchThread THEN n ELSE 0]
        /\ base_delay = [t \in Threads |-> IF t = FetchThread THEN d ELSE 0]
        /\ retry_delay = base_delay
    /\ attempt = [t \in Threads |-> 0]
    /\ events = [t \in Threads |-> << >>]
    /\ notes = [t \in Threads |-> << >>]
    /\ ret = [t \in Threads |-> NoRet]
    /\ email = [t \in Threads |-> NoEmail]
    /\ subscribers = [t \in Threads |-> << >>]
    /\ outcome = [t \in Threads |-> "none"]
    /\ writes = [t \in Threads |-> 0]
    /\ settled = [t \in Threads |-> NoEmail]
    /\ again = [t \in Threads |-> FALSE]
    /\ crypto_data = [t \in Threads |-> NoRet]
    /\ email_content = [t \in Threads |-> NoPage]
    /\ idx = [t \in Threads |-> 0]
    /\ posts = [t \in Threads |-> << >>]
    /\ log = [t \in Threads |-> << >>]
    /\ fresh = [t \in Threads |-> FALSE]
    /\ subject = [t \in Threads |-> NoSubject]
    /\ payloads = [t \in Threads |-> << >>]
    /\ pending = [t \in Threads |-> << >>]
    /\ wake = [t \in Threads |-> 0]
    /\ now = 0
    /\ jobs = << >>
    /\ fired = {}

FetchNext ==
    \/ FetchGet(FetchThread)
    \/ FetchSleep(FetchThread)
    \/ FetchExhausted(FetchThread)

FetchSpec == FetchInit /\ [][FetchNext]_vars

FetchFairSpec == FetchSpec /\ WF_vars(FetchNext)

(***************************************************************************)
(* Two subscribes: each page presses the button once, with any input, and  *)
(* the steps of the two handlers interleave in any way.                    *)
(***************************************************************************)
RaceNext ==
    \E t \in Pages :
        \/ Subscribe(t)
        \/ SubscribeLoad(t)
        \/ SaveOpen(t)
        \/ SaveWrite(t)

RaceSpec == Init /\ [][RaceNext]_vars

(***************************************************************************)
(* The process as it starts, its file one of F: the entry point has        *)
(* started one scheduler thread, a page is open, the clock shows midnight. *)
(* The page has the button "Send Test Email" only.                         *)
(***************************************************************************)
ProcessInit(F) ==
    /\ file \in F
    /\ pc = [t \in Threads |-> IF t = "sched1" THEN "sched_register"
                             ELSE IF t \in Pages THEN "idle" ELSE "unstarted"]
    /\ now = 0
    /\ Idle

ManualNext ==
    \/ SchedStep("sched1")
    \/ RunStart("ui1")
    \/ RunLoad("ui1")
    \/ FetchGet("ui1")
    \/ FetchSleep("ui1")
    \/ FetchExhausted("ui1")
    \/ RunRender("ui1")
    \/ RunSend("ui1")
    \/ RunSent("ui1")
    \/ RunEnd("ui1")
    \/ Tick

ManualInit == ProcessInit(InitFiles)

ManualSpec == ManualInit /\ [][ManualNext]_vars

(***************************************************************************)
(* The scheduler threads on their own: the one the process started with,   *)
(* and the one that another execution of the entry point starts.           *)
(***************************************************************************)
SchedFiles == {Absent, CorruptFile, Stored(<<AddrA>>)}
SchedInit == ProcessInit(SchedFiles)

SchedNext ==
    \/ \E s \in Schedulers : EntryPoint(s) \/ SchedStep(s)
    \/ Tick

SchedSpec == SchedInit /\ [][SchedNext]_vars

(***************************************************************************)
(* The subscribe handlers on their own: the pages press the button any     *)
(* number of times, with any inputs.                                       *)
(***************************************************************************)
SubNext ==
    \E t \in Pages :
        \/ Subscribe(t)
        \/ SubscribeLoad(t)
        \/ SaveOpen(t)
        \/ SaveWrite(t)
        \/ SubscribeEnd(t)

SubSpec == Init /\ [][SubNext]_vars

(***************************************************************************)
(* What a call did, read off its events.                                   *)
(***************************************************************************)
IsGet(e) == e[1] = "GET"
IsSleep(e) == e[1] = "SLEEP"
GetsOf(ev) == SelectSeq(ev, IsGet)
SleepsOf(ev) == SelectSeq(ev, IsSleep)

RECURSIVE Pow2(_)
Pow2(n) == IF n = 0 THEN 1 ELSE 2 * Pow2(n - 1)

Max(a, b) == IF a >= b THEN a ELSE b

\* the first k GETs were answered 429
RateLimitedTimes(ev, k) ==
    /\ Len(GetsOf(ev)) >= k
    /\ \A i \in 1 .. k : GetsOf(ev)[i][2] = 429

Returned(t) == pc[t] = "fetch_ret"

(***************************************************************************)
(* C1: when the price API answers 429 to the first k GETs and 200 to GET   *)
(* k+1, the call issues exactly k+1 GETs and sleeps exactly k times, the   *)
(* i-th sleep lasts base_delay * 2^(i-1) and lies between GET i and GET    *)
(* i+1, the call has ended with GET k+1, and the value returned is the     *)
(* document of that response's body.                                       *)
(***************************************************************************)
C1_RetryThenSuccess ==
    \A t \in Threads : \A k \in 0 .. MaxRetriesArg + 1 :
        ( /\ RateLimitedTimes(events[t], k)
          /\ Len(GetsOf(events[t])) >= k + 1
          /\ GetsOf(events[t])[k + 1][2] = 200 )
        =>
        /\ k < max_retries[t]
        /\ Returned(t)
        /\ Len(GetsOf(events[t])) = k + 1
        /\ Len(SleepsOf(events[t])) = k
        /\ Len(events[t]) = 2 * k + 1
        /\ \A i \in 1 .. k :
              /\ IsGet(events[t][2 * i - 1])
              /\ events[t][2 * i] = <<"SLEEP", base_delay[t] * Pow2(i - 1)>>
        /\ IsGet(events[t][2 * k + 1])
        /\ JsonParses(events[t][2 * k + 1][3])
              => ret[t] = RetValue(ResponseJson(events[t][2 * k + 1][3]))

C1_Witness ==
    \E t \in Threads :
        /\ Returned(t)
        /\ Len(events[t]) = 5
        /\ RateLimitedTimes(events[t], 2)
        /\ events[t][5] = <<"GET", 200, "PRICES">>
        /\ base_delay[t] = 3
        /\ events[t][4] = <<"SLEEP", 6>>
        /\ ret[t].kind = "value"

(***************************************************************************)
(* C2: with max_retries = n >= 1 and every GET answered 429, the call      *)
(* issues exactly n GETs and sleeps exactly n-1 times, its last event is   *)
(* the n-th GET (no sleep follows it), it reports the exhausted rate       *)
(* limit and it returns None, no snapshot.                                 *)
(***************************************************************************)
C2_AllRateLimited ==
    \A t \in Threads :
        ( /\ Returned(t)
          /\ max_retries[t] >= 1
          /\ RateLimitedTimes(events[t], Len(GetsOf(events[t]))) )
        =>
        /\ Len(GetsOf(events[t])) = max_retries[t]
        /\ Len(SleepsOf(events[t])) = max_retries[t] - 1
        /\ IsGet(events[t][Len(events[t])])
        /\ ret[t] = RetNone
        /\ notes[t][Len(notes[t])] = <<"error_rate_limit_exceeded">>

C2_Witness ==
    \E t \in Threads :
        /\ Returned(t)
        /\ max_retries[t] = 3
        /\ Len(GetsOf(events[t])) = 3
        /\ RateLimitedTimes(events[t], 3)
        /\ Len(SleepsOf(events[t])) = 2
        /\ ret[t] = RetNone

(***************************************************************************)
(* C3: a GET answered with a status that is neither 200 nor 429 is the     *)
(* last event of the call: the call returns None at once, with no further  *)
(* GET and no sleep, however many attempts remain.                         *)
(***************************************************************************)
C3_OtherStatusReturnsAtOnce ==
    \A t \in Threads : \A i \in 1 .. Len(events[t]) :
        (IsGet(events[t][i]) /\ events[t][i][2] \notin {200, 429})
        =>
        /\ i = Len(events[t])
        /\ Returned(t)
        /\ ret[t] = RetNone

C3_Witness ==
    \E t \in Threads :
        /\ Returned(t)
        /\ max_retries[t] = 4
        /\ Len(events[t]) = 3
        /\ events[t][3][2] = 500
        /\ ret[t] = RetNone

(***************************************************************************)
(* C4: for every max_retries >= 0 and every sequence of responses the      *)
(* call never issues more than max_retries GETs nor sleeps more than       *)
(* max(max_retries - 1, 0) times, and it ends: in a returned document, in  *)
(* None, or in the parse error of line 24.                                 *)
(***************************************************************************)
C4_Terminates ==
    /\ [](\A t \in Threads :
            /\ Len(GetsOf(events[t])) <= max_retries[t]
            /\ Len(SleepsOf(events[t])) <= Max(max_retries[t] - 1, 0))
    /\ <>(/\ Returned(FetchThread)
          /\ ret[FetchThread].kind \in {"value", "none", "raised"})

C4_Witness ==
    \E t \in Threads :
        /\ Returned(t)
        /\ max_retries[t] = 4
        /\ Len(GetsOf(events[t])) = 4
        /\ Len(SleepsOf(events[t])) = 3

(***************************************************************************)
(* What a run of send_daily_updates did.                                   *)
(***************************************************************************)
\* t is in send_daily_updates, past the load of line 76
PastLoad(t) ==
    pc[t] \in {"fetch_get", "fetch_sleep", "fetch_ret", "run_send", "run_end"}

\* t is in send_daily_updates, past the call of line 81
PastFetch(t) == pc[t] \in {"run_send", "run_end"} /\ events[t] # << >>

LastEvent(t) == events[t][Len(events[t])]

\* the call of the fetcher ended on a 200 whose body is no JSON document
UnparsableAnswer(t) ==
    /\ events[t] # << >>
    /\ IsGet(LastEvent(t))
    /\ LastEvent(t)[2] = 200
    /\ LastEvent(t)[3] = "NOT_JSON"

\* no GET of the call was answered 200
NoneAnswered200(t) ==
    \A i \in 1 .. Len(events[t]) :
        IsGet(events[t][i]) => events[t][i][2] # 200

(***************************************************************************)
(* C5: a 200 whose body cannot be parsed makes the fetcher hand a Failure  *)
(* value (None) to its caller: no error escapes, from the fetcher or from  *)
(* the run that called it, and the run ends with no POST.                  *)
(***************************************************************************)
C5_UnparsableIsFailureValue ==
    \A t \in Threads :
        UnparsableAnswer(t) =>
            /\ pc[t] \in {"fetch_ret", "run_end"}
            /\ pc[t] = "fetch_ret" => ret[t] = RetNone
            /\ pc[t] = "run_end" =>
                    /\ crypto_data[t] = RetNone
                    /\ outcome[t] = "returned"
            /\ posts[t] = << >>

(***************************************************************************)
(* C6: a subscribe of a valid address that follows a subscribe of the same *)
(* address, no other thread having written the file in between, reports    *)
(* already_subscribed and writes nothing, and the stored list holds the    *)
(* address exactly once.                                                   *)
(***************************************************************************)
C6_SubscribeTwice ==
    \A t \in Threads :
        (pc[t] = "sub_end" /\ again[t]) =>
            /\ outcome[t] = "already_subscribed"
            /\ writes[t] = 0
            /\ Count(load_subscribers(file), email[t]) = 1

C6_Witness ==
    \E t \in Threads :
        /\ pc[t] = "sub_end"
        /\ again[t]
        /\ email[t] = AddrA
        /\ outcome[t] = "already_subscribed"
        /\ file = Stored(<<AddrB, AddrA>>)

(***************************************************************************)
(* C7: a subscribe with an input that is empty or holds no "@" ends at     *)
(* once as invalid_email: the step leaves the file as it was, and the      *)
(* handler neither loads the list nor writes.                              *)
(***************************************************************************)
LacksAt(e) == \A i \in DOMAIN e : e[i] # "@"

C7_InvalidEmailRejected ==
    [][\A t \in Threads :
          (pc[t] = "idle" /\ email'[t] # NoEmail /\ LacksAt(email'[t])) =>
              /\ pc'[t] = "sub_end"
              /\ outcome'[t] = "invalid_email"
              /\ file' = file
              /\ writes'[t] = 0
              /\ subscribers'[t] = << >>]_vars

C7_Witness ==
    \E t \in Threads :
        /\ pc[t] = "sub_end"
        /\ email[t] = <<"a">>
        /\ outcome[t] = "invalid_email"
        /\ file = Stored(<<AddrB>>)

(***************************************************************************)
(* C8: once the page is rendered, the run POSTs once for every loaded      *)
(* subscriber, in list order, prints one line for each, sent or failed,    *)
(* and returns; no answer of the email API makes it raise or stop early.   *)
(***************************************************************************)
C8_FanOutIndependent ==
    \A t \in Threads :
        (pc[t] = "run_end" /\ email_content[t] # NoPage) =>
            /\ outcome[t] = "returned"
            /\ posts[t] = subscribers[t]
            /\ Len(log[t]) = Len(subscribers[t])
            /\ \A i \in 1 .. Len(log[t]) :
                  /\ log[t][i][1] \in {"sent", "failed"}
                  /\ log[t][i][2] = subscribers[t][i]

(***************************************************************************)
(* C9: a run whose fetch ends without a snapshot makes no POST: when the   *)
(* fetcher returns None the run prints that the fetch failed and returns,  *)
(* and when the fetcher raises the run ends on the error.                  *)
(***************************************************************************)
C9_FetchFailureNoSends ==
    \A t \in Threads :
        (PastFetch(t) /\ (NoneAnswered200(t) \/ UnparsableAnswer(t))) =>
            /\ pc[t] = "run_end"
            /\ posts[t] = << >>
            /\ subscribers[t] # << >>
            /\ NoneAnswered200(t) =>
                  /\ crypto_data[t] = RetNone
                  /\ outcome[t] = "returned"
                  /\ log[t] = << <<"failed_to_fetch">> >>
            /\ UnparsableAnswer(t) => outcome[t] = "raised"

C9_Witness ==
    \E t \in Threads :
        /\ pc[t] = "run_end"
        /\ Len(GetsOf(events[t])) = 3
        /\ NoneAnswered200(t)
        /\ subscribers[t] = <<AddrA, AddrB>>
        /\ posts[t] = << >>
        /\ log[t] = << <<"failed_to_fetch">> >>

(***************************************************************************)
(* C10: a run that loads an empty list, the file being absent, corrupt or  *)
(* an empty array, prints that there are no subscribers and returns, with  *)
(* no GET and no POST.                                                     *)
(***************************************************************************)
C10_EmptyListNoOp ==
    \A t \in Threads :
        (PastLoad(t) /\ subscribers[t] = << >>) =>
            /\ pc[t] = "run_end"
            /\ outcome[t] = "returned"
            /\ log[t] = << <<"no_subscribers">> >>
            /\ events[t] = << >>
            /\ posts[t] = << >>

C10_Witness ==
    \E t \in Threads :
        /\ pc[t] = "run_end"
        /\ file = CorruptFile
        /\ subscribers[t] = << >>
        /\ log[t] = << <<"no_subscribers">> >>

(***************************************************************************)
(* What the file holds, read off its text.                                 *)
(***************************************************************************)
StoredHas(e) == \E i \in 1 .. Len(file.text) : file.text[i] = Str(e)
StoredTimes(e) == Cardinality({i \in 1 .. Len(file.text) : file.text[i] = Str(e)})

\* both pages have been through a subscribe that reported its address added,
\* and the two addresses differ
BothAdded(t, u) ==
    /\ t # u
    /\ pc[t] = "sub_end" /\ pc[u] = "sub_end"
    /\ outcome[t] = "added" /\ outcome[u] = "added"
    /\ email[t] # email[u]

(***************************************************************************)
(* C11: of two subscribes of distinct new addresses that both report       *)
(* "added", the later save wins: the file is the list one of the two       *)
(* wrote, so that it may hold one of the addresses only; when one of them  *)
(* loaded after the other had saved, the file holds both addresses.        *)
(***************************************************************************)
C11_LastWriteWins ==
    \A t \in Pages : \A u \in Pages :
        BothAdded(t, u) =>
            /\ file = Stored(subscribers[t]) \/ file = Stored(subscribers[u])
            /\ StoredHas(email[t]) \/ StoredHas(email[u])
            /\ fresh[t] => (StoredHas(email[t]) /\ StoredHas(email[u]))

\* the lost update: both reported, one stored
C11_Witness ==
    \E t \in Pages : \E u \in Pages :
        /\ BothAdded(t, u)
        /\ ~fresh[t] /\ ~fresh[u]
        /\ StoredHas(email[u])
        /\ ~StoredHas(email[t])

\* thread t is inside send_daily_updates
InRun(t) ==
    pc[t] \in {"run_load", "fetch_get", "fetch_sleep", "fetch_ret", "run_send", "run_end"}

(***************************************************************************)
(* C12: nothing keeps a run of the scheduler loop and a run of the button  *)
(* "Send Test Email" apart.  While the other thread is inside its own run, *)
(* a run POSTs for the addresses of the list it loaded, in their order,    *)
(* and a run that returns after rendering has POSTed for all of them: an   *)
(* address of both lists is sent two digests.                              *)
(***************************************************************************)
C12_NoSingleFlight ==
    \A t \in {"sched1", "ui1"} : \A u \in {"sched1", "ui1"} :
        (t # u /\ InRun(t) /\ InRun(u)) =>
            /\ posts[t] = SubSeq(subscribers[t], 1, Len(posts[t]))
            /\ (pc[t] = "run_end" /\ outcome[t] = "returned"
                    /\ crypto_data[t].kind = "value" /\ DOMAIN crypto_data[t].val # {})
                => posts[t] = subscribers[t]

\* both runs are over, neither has left yet, and each has sent to AddrA
C12_Witness ==
    /\ pc["sched1"] = "run_end" /\ pc["ui1"] = "run_end"
    /\ outcome["sched1"] = "returned" /\ outcome["ui1"] = "returned"
    /\ <<"sent", AddrA>> \in {log["sched1"][i] : i \in 1 .. Len(log["sched1"])}
    /\ <<"sent", AddrA>> \in {log["ui1"][i] : i \in 1 .. Len(log["ui1"])}
    /\ <<"sched1", 1, AT_TIME, 1>> \in fired

\* the lists a text can be the dump of, and the list the file is the dump of
\* (the empty list when it is the dump of none)
DumpedLists ==
    {<< >>} \cup {<<a>> : a \in {AddrA, AddrB}}
            \cup {<<a, b>> : a \in {AddrA, AddrB}, b \in {AddrA, AddrB}}
FileList ==
    IF \E L \in DumpedLists : file = Stored(L)
    THEN CHOOSE L \in DumpedLists : file = Stored(L)
    ELSE << >>

\* thread t takes the step that loads the file
Loads(t) == pc[t] \in {"sub_load", "run_load"} /\ pc'[t] # pc[t]

(***************************************************************************)
(* C13: load_subscribers gives the empty list for a file that is absent,   *)
(* empty or cut short, and the elements of the array, in the order of the  *)
(* file, for a file that holds an array; the step that loads leaves the    *)
(* file as it was, and binds the list so defined.                          *)
(***************************************************************************)
C13_LoadNeverFails ==
    /\ [](/\ file \in {Absent, Truncated, CorruptFile}
                => load_subscribers(file) = << >>
          /\ \A L \in DumpedLists :
                file = Stored(L) => load_subscribers(file) = L)
    /\ [][\A t \in Threads :
            Loads(t) =>
                /\ file' = file
                /\ \/ subscribers'[t] = FileList
                   \/ /\ pc[t] = "sub_load"
                      /\ subscribers'[t] = Append(FileList, email[t])]_vars

\* a subscribe has loaded the file cut short as the empty list
C13_Witness ==
    \E t \in Threads :
        /\ pc[t] = "sub_open"
        /\ file = CorruptFile
        /\ subscribers[t] = <<AddrB>>

(***************************************************************************)
(* C14: a scheduler thread that has started never ends: whatever its run   *)
(* of send_daily_updates met, it is in its loop, waiting or running.       *)
(***************************************************************************)
C14_LoopSurvives ==
    \A s \in Schedulers : pc[s] # "dead"

\* no job is due when the clock shows n
NoneDue(n) == \A j \in 1 .. Len(jobs) : n < jobs[j].next_run

(***************************************************************************)
(* C15: a scheduler loop sleeps for one sleep's length at least, from the  *)
(* moment it went to sleep; when it wakes and no 08:00 has come for a job, *)
(* it calls nothing and sleeps again; a job it calls is called for an      *)
(* 08:00 that the clock has reached; and when the job has returned the     *)
(* loop calls the next job that was due or sleeps as before.               *)
(***************************************************************************)
C15_DailyAtEight ==
    [][\A s \in Schedulers :
        /\ \A f \in fired' \ fired :
              /\ f[3] % TicksPerDay = AT_TIME
              /\ now >= f[3]
        /\ (pc[s] = "sched_sleep" /\ pc'[s] # "sched_sleep")
              => (now >= wake[s] /\ pc'[s] = "sched_pending")
        /\ (pc[s] # "sched_sleep" /\ pc'[s] = "sched_sleep")
              => wake'[s] = now + SLEEP
        /\ (pc[s] = "sched_pending" /\ pc'[s] # "sched_pending" /\ NoneDue(now))
              => (pc'[s] = "sched_sleep" /\ fired' = fired)
        /\ (pc[s] = "run_end" /\ outcome[s] = "returned" /\ pc'[s] # "run_end")
              => pc'[s] \in {"run_load", "sched_sleep"}]_vars

\* the loop has called its job for the first 08:00 and is asleep again, the
\* job due the next day
C15_Witness ==
    /\ pc["sched1"] = "sched_sleep"
    /\ <<"sched1", 1, AT_TIME, 1>> \in fired
    /\ jobs[1].next_run = AT_TIME + TicksPerDay
    /\ wake["sched1"] > AT_TIME

\* the 08:00 r has had send_daily_updates called for it more than once
CalledTwice(r) == Cardinality({f \in fired : f[3] = r}) > 1

(***************************************************************************)
(* C16: nothing keeps the scheduler from calling send_daily_updates twice  *)
(* for one 08:00: it does so as soon as the entry point has been executed  *)
(* again, which registers a second job and starts a second loop over the   *)
(* jobs of the process; with the one job of the one loop it does not.      *)
(***************************************************************************)
C16_DoubleFiring ==
    /\ \A f \in fired : f[4] = 1
    /\ \A f \in fired : CalledTwice(f[3]) => Len(jobs) > 1

\* the first 08:00 has come once and both loops have called the first job
\* for it
C16_Witness ==
    /\ now = AT_TIME
    /\ CalledTwice(AT_TIME)
    /\ <<"sched1", 1, AT_TIME, 1>> \in fired
    /\ <<"sched2", 1, AT_TIME, 1>> \in fired

C18_AppendsLast ==
    \A t \in Threads :
        /\ (pc[t] = "sub_open" /\ fresh[t])
              => subscribers[t] = Append(FileList, email[t])
        /\ (pc[t] = "sub_end" /\ outcome[t] = "added" /\ fresh[t])
              => /\ file = Stored(subscribers[t])
                 /\ load_subscribers(file) = subscribers[t]
                 /\ FileList = subscribers[t]
                 /\ subscribers[t][Len(subscribers[t])] = email[t]

\* AddrB has been added after AddrA, with no write of another thread
C18_Witness ==
    \E t \in Threads :
        /\ pc[t] = "sub_end"
        /\ outcome[t] = "added"
        /\ fresh[t]
        /\ email[t] = AddrB
        /\ file = Stored(<<AddrA, AddrB>>)

(***************************************************************************)
(* C19: the file having started with no address twice, no interleaving of  *)
(* the loads and saves of subscribes, two of the same address racing       *)
(* included, leaves an address twice in the file or in a handler's list.   *)
(***************************************************************************)
C19_NoDuplicates ==
    /\ \A e \in EmailInputs : StoredTimes(e) <= 1
    /\ \A t \in Threads : \A e \in EmailInputs : Count(subscribers[t], e) <= 1

\* two subscribes of AddrA have raced, both have reported "added", and the
\* file holds it once
C19_Witness ==
    \E t \in Pages : \E u \in Pages :
        /\ t # u
        /\ pc[t] = "sub_end" /\ pc[u] = "sub_end"
        /\ outcome[t] = "added" /\ outcome[u] = "added"
        /\ email[t] = AddrA /\ email[u] = AddrA
        /\ StoredTimes(AddrA) = 1

\* thread t is inside send_daily_updates and has loaded its list
HasLoaded(t) == pc[t] \in {"fetch_get", "fetch_sleep", "fetch_ret", "run_send"}

(***************************************************************************)
(* C20: a run loads the file once, as its first step, and binds the list   *)
(* the file then holds; the list stays as loaded until the run's end and   *)
(* the POSTs of the run are for its addresses, in their order, whatever is *)
(* written to the file meanwhile; no step of a run changes the file.       *)
(***************************************************************************)
C20_LoadedListOnly ==
    /\ [](\A t \in Threads :
            (HasLoaded(t) \/ pc[t] = "run_end") =>
                /\ posts[t] = SubSeq(subscribers[t], 1, Len(posts[t]))
                /\ \A i \in 1 .. Len(payloads[t]) :
                      payloads[t][i].to = subscribers[t][i])
    /\ [][\A t \in Threads :
            /\ pc'[t] = "run_load" => pc[t] \in {"idle", "run_load"}
            /\ (pc[t] = "run_load" /\ pc'[t] # "run_load")
                  => (subscribers'[t] = FileList /\ file' = file)
            /\ HasLoaded(t) => subscribers'[t] = subscribers[t]
            /\ (InRun(t) /\ file' # file)
                  => /\ pc'[t] = pc[t] /\ posts'[t] = posts[t]
                     /\ \E u \in Threads \ {t} :
                           pc[u] \in {"sub_open", "sub_write"} /\ pc'[u] # pc[u]]_vars

\* AddrB was added after the run had loaded [AddrA]: the run is over and has
\* sent to AddrA only
C20_Witness ==
    \E t \in Threads : \E u \in Threads :
        /\ pc[t] = "run_end" /\ outcome[t] = "returned"
        /\ subscribers[t] = <<AddrA>>
        /\ posts[t] = <<AddrA>>
        /\ pc[u] = "sub_end" /\ outcome[u] = "added" /\ email[u] = AddrB
        /\ file = Stored(<<AddrA, AddrB>>)

=============================================================================
